---- MODULE Spec2Model ----
(***************************************************************************)
(* Pirate Quest: the visit tracking state of src/app.js.                    *)
(*                                                                         *)
(* The state is the module-level variables of app.js (pools, visited,      *)
(* selectedIndex, currentStampsPage, onStampsView), the three entries of   *)
(* the persistent store, and the DOM properties the code writes and later  *)
(* depends on (the claim chip's data-id, the page buttons' disabled flag,  *)
(* the reset button's display).  One action per event handler; a handler   *)
(* runs to completion, renders included.                                   *)
(*                                                                         *)
(* Strings the code inspects character by character (dates) are sequences  *)
(* of one-character strings.                                               *)
(***************************************************************************)
EXTENDS Integers, Sequences, FiniteSets, TLC

VARIABLES
    pc,                 \* "loading" | "ready" | "failed": progress of init()
    pools,              \* app.js:20, the catalog as its sequence of ids
    visited,            \* app.js:21, id -> [done, date]
    selectedIndex,      \* app.js:22
    currentStampsPage,  \* app.js:23
    onStampsView,       \* app.js:24
    store,              \* the persistent store: visited, selection, page
    listDom,            \* what renderList last put in #poolList
    stampsDom,          \* what renderStamps last put in the passport view
    countBadge,         \* text of #countBadge as <<done, total>>
    resetDisplay,       \* resetBtn.style.display
    finalePending,      \* 900 ms finale timers scheduled and not yet fired
    celebrations,       \* finale timers scheduled since startup or the last reset
    last,               \* the handler that ran last, with its inputs
    lastWrites          \* the store writes of that handler, in order

vars == <<pc, pools, visited, selectedIndex, currentStampsPage, onStampsView,
          store, listDom, stampsDom, countBadge, resetDisplay, finalePending,
          celebrations, last, lastWrites>>

----------------------------------------------------------------------------
(* Bounds of the model *)

MaxPools == 3          \* the catalog has at most this many locations
MaxStoredIndex == 2    \* stored indices are drawn from -MaxStoredIndex..MaxStoredIndex
MaxPending == 1        \* finale timers in flight at once

(* Program constants *)

stampsPerPage == 2

----------------------------------------------------------------------------
(* Arithmetic of the JavaScript built-ins the handlers use *)

Min(a, b) == IF a <= b THEN a ELSE b
Max(a, b) == IF a >= b THEN a ELSE b

\* Math.ceil(n / k) for k > 0
CeilDiv(n, k) == IF n >= 0 THEN (n + k - 1) \div k ELSE -((-n) \div k)

\* a % n of JavaScript: the remainder takes the sign of the dividend
JsRem(a, n) == IF a >= 0 THEN a % n ELSE -((-a) % n)

\* Array.prototype.slice(start, end): negative indices count from the end
JsSlice(s, start, end) ==
    LET len == Len(s)
        k == IF start < 0 THEN Max(len + start, 0) ELSE Min(start, len)
        f == IF end < 0 THEN Max(len + end, 0) ELSE Min(end, len)
    IN  IF f <= k THEN <<>> ELSE SubSeq(s, k + 1, f)

----------------------------------------------------------------------------
(* Date strings *)

Digits == {"0", "1", "2", "3", "4", "5", "6", "7", "8", "9"}

\* the value of a missing date field (undefined)
Undefined == <<"undefined">>

AU_01 == <<"0","1","/","0","1","/","2","0","2","5">>
AU_02 == <<"0","2","/","0","1","/","2","0","2","5">>
AU_03 == <<"0","3","/","0","1","/","2","0","2","5">>
ISO_01 == <<"2","0","2","5","-","0","1","-","0","1">>
ISO_02 == <<"2","0","2","5","-","0","1","-","0","2">>
Other_04 == <<"4",".","1",".","2","0","2","5">>

\* what Intl.DateTimeFormat('en-AU').format(new Date()) can return on a claim
Today == {AU_01, AU_02, AU_03}

AllDigits(s, from, to) == \A i \in from..to : s[i] \in Digits

\* /^\d{4}-\d{2}-\d{2}$/.test(d)
IsIso(d) ==
    /\ Len(d) = 10
    /\ d[5] = "-" /\ d[8] = "-"
    /\ AllDigits(d, 1, 4) /\ AllDigits(d, 6, 7) /\ AllDigits(d, 9, 10)

\* /^\d{2}\/\d{2}\/\d{4}$/.test(d)
IsAu(d) ==
    /\ Len(d) = 10
    /\ d[3] = "/" /\ d[6] = "/"
    /\ AllDigits(d, 1, 2) /\ AllDigits(d, 4, 5) /\ AllDigits(d, 7, 10)

IsDigit(c) == c \in Digits
NotDash(c) == c # "-"

dateKeyDigitsOnly(d) == IF d = Undefined \/ d = <<>> THEN <<>> ELSE SelectSeq(d, IsDigit)

dateKey(d) ==
    IF d = Undefined \/ d = <<>> THEN <<>>
    ELSE IF IsIso(d) THEN SelectSeq(d, NotDash)
    ELSE IF IsAu(d) THEN SubSeq(d, 7, 10) \o SubSeq(d, 4, 5) \o SubSeq(d, 1, 2)
    ELSE SelectSeq(d, IsDigit)

formatDateAUAsStored(d) == IF d = Undefined \/ d = <<>> THEN <<>> ELSE d

formatDateAU(d) ==
    IF d = Undefined \/ d = <<>> THEN <<>>
    ELSE IF IsIso(d)
         THEN SubSeq(d, 9, 10) \o <<"/">> \o SubSeq(d, 6, 7) \o <<"/">> \o SubSeq(d, 1, 4)
    ELSE d

\* the code point of a digit, for comparing keys
CodePoint ==
    [c \in Digits |->
        CASE c = "0" -> 0 [] c = "1" -> 1 [] c = "2" -> 2 [] c = "3" -> 3
          [] c = "4" -> 4 [] c = "5" -> 5 [] c = "6" -> 6 [] c = "7" -> 7
          [] c = "8" -> 8 [] c = "9" -> 9]

\* a.localeCompare(b) on digit strings: -1, 0 or 1
RECURSIVE localeCompare(_, _)
localeCompare(a, b) ==
    IF a = <<>> /\ b = <<>> THEN 0
    ELSE IF a = <<>> THEN -1
    ELSE IF b = <<>> THEN 1
    ELSE IF Head(a) = Head(b) THEN localeCompare(Tail(a), Tail(b))
    ELSE IF CodePoint[Head(a)] < CodePoint[Head(b)] THEN -1
    ELSE 1

----------------------------------------------------------------------------
(* The catalog and the ledger *)

\* ids of the locations a catalog can hold, in catalog order
CatalogIds == <<"A", "B", "C", "D">>

\* an id a stored ledger can hold that no catalog has
StaleId == "Z"

AllIds == {CatalogIds[i] : i \in 1..Len(CatalogIds)} \cup {StaleId}

\* what loadPools() can resolve to
Catalogs == {SubSeq(CatalogIds, 1, n) : n \in 0..MaxPools}

Rec(done, date) == [done |-> done, date |-> date]

EmptyLedger == <<>>

\* visited[id]?.done
IsDone(ledger, id) == id \in DOMAIN ledger /\ ledger[id].done

\* visited[id] = rec
Put(ledger, id, rec) ==
    [x \in DOMAIN ledger \cup {id} |-> IF x = id THEN rec ELSE ledger[x]]

One(id, rec) == Put(EmptyLedger, id, rec)

\* ledgers an earlier session, or an earlier version, can have left in the store
StoredLedgers ==
    { EmptyLedger,
      One("A", Rec(TRUE, ISO_02)),
      One("B", Rec(TRUE, Undefined)),
      Put(One(StaleId, Rec(TRUE, AU_01)), "A", Rec(FALSE, AU_02)),
      Put(Put(One("A", Rec(TRUE, AU_03)), "B", Rec(TRUE, ISO_01)), "C", Rec(TRUE, Other_04)) }

StoredIndices == (-MaxStoredIndex)..MaxStoredIndex

----------------------------------------------------------------------------
(* storage.js: the store holds three entries; an entry that is absent or    *)
(* malformed reads as its default                                          *)

Entry(ok, val) == [ok |-> ok, val |-> val]

readVisited(st) == IF st.visited.ok THEN st.visited.val ELSE EmptyLedger
readSelection(st) == IF st.selection.ok THEN st.selection.val ELSE 0
readStampsPage(st) == IF st.page.ok THEN st.page.val ELSE 0

writeVisited(st, v) == [st EXCEPT !.visited = Entry(TRUE, v)]
writeSelection(st, i) == [st EXCEPT !.selection = Entry(TRUE, i)]
writeStampsPage(st, p) == [st EXCEPT !.page = Entry(TRUE, p)]

countVisited(ledger) == Cardinality({id \in DOMAIN ledger : ledger[id].done})

\* one store write, as the handlers' log keeps it
W(key, val) == [key |-> key, val |-> val]

Stores ==
    { [visited |-> v, selection |-> s, page |-> p] :
        v \in {Entry(FALSE, EmptyLedger)} \cup {Entry(TRUE, l) : l \in StoredLedgers},
        s \in {Entry(FALSE, 0)} \cup {Entry(TRUE, i) : i \in StoredIndices},
        p \in {Entry(FALSE, 0)} \cup {Entry(TRUE, i) : i \in StoredIndices} }

----------------------------------------------------------------------------
(* Rendering *)

InCatalog(ps, id) == \E i \in 1..Len(ps) : ps[i] = id

\* the comparator of the sort in renderStamps
byDateKey(ledger, a, b) == localeCompare(dateKey(ledger[a].date), dateKey(ledger[b].date))

\* Array.prototype.sort is stable: x, which came after every element of
\* sorted, goes behind the elements that do not compare greater than it
RECURSIVE insertStable(_, _, _)
insertStable(ledger, sorted, x) ==
    IF sorted = <<>> THEN <<x>>
    ELSE IF byDateKey(ledger, Head(sorted), x) <= 0
         THEN <<Head(sorted)>> \o insertStable(ledger, Tail(sorted), x)
    ELSE <<x>> \o sorted

RECURSIVE sortByDateKey(_, _)
sortByDateKey(ledger, s) ==
    IF s = <<>> THEN <<>>
    ELSE insertStable(ledger, sortByDateKey(ledger, SubSeq(s, 1, Len(s) - 1)), s[Len(s)])

\* pools.filter(p => visited[p.id]?.done).sort(...)
visitedPools(ps, ledger) ==
    sortByDateKey(ledger, SelectSeq(ps, LAMBDA id : IsDone(ledger, id)))

\* Math.max(1, Math.ceil(visitedPools.length / stampsPerPage))
totalPages(n) == Max(1, CeilDiv(n, stampsPerPage))

clampPageWrapping(page, total) == IF page > total - 1 THEN 0 ELSE page

\* currentStampsPage = Math.min(currentStampsPage, totalPages - 1)
clampPage(page, total) == Min(page, total - 1)

\* visitedPools.slice(page * stampsPerPage, page * stampsPerPage + stampsPerPage)
pagePools(vp, page) == JsSlice(vp, page * stampsPerPage, page * stampsPerPage + stampsPerPage)

\* the passport view before the first renderStamps: the markup as authored,
\* of which the model knows nothing
Unrendered ==
    [ rendered |-> FALSE, label |-> <<0, 0>>, prevDisabled |-> FALSE,
      nextDisabled |-> FALSE, grid |-> <<>> ]

stampsPageNextNotDisabled(vp, page) ==
    LET total == totalPages(Len(vp))
        p == clampPage(page, total)
    IN  [ page |-> p,
          dom |-> [ rendered |-> TRUE,
                    label |-> <<p + 1, total>>,
                    prevDisabled |-> p <= 0,
                    nextDisabled |-> p > total - 1,
                    grid |-> pagePools(vp, p) ] ]

\* the rest of renderStamps, given the sorted visited pools
stampsPage(vp, page) ==
    LET total == totalPages(Len(vp))
        p == clampPage(page, total)
    IN  [ page |-> p,
          dom |-> [ rendered |-> TRUE,
                    label |-> <<p + 1, total>>,
                    prevDisabled |-> p <= 0,
                    nextDisabled |-> p >= total - 1,
                    grid |-> pagePools(vp, p) ] ]

\* renderStamps: the clamped page it stores and what it shows (the grid as the
\* ids of its cards, in order)
renderStamps(ps, ledger, page) ==
    CHOOSE r \in {stampsPage(vp, page) : vp \in {visitedPools(ps, ledger)}} : TRUE

NoChip == [shown |-> FALSE, id |-> "", stamped |-> FALSE, date |-> <<>>]

renderListFirstPool(ps, sel, ledger) ==
    IF ps = <<>> THEN NoChip
    ELSE LET id == ps[1]
             stamped == id \in DOMAIN ledger /\ ledger[id].done = TRUE
         IN  [ shown |-> TRUE, id |-> id, stamped |-> stamped,
               date |-> IF stamped THEN formatDateAU(ledger[id].date) ELSE <<>> ]

\* renderList: the row of the selected pool (the chip's data-id, its stamped
\* class and the date it shows), or "No pools loaded."
renderList(ps, sel, ledger) ==
    IF ps = <<>> THEN NoChip
    ELSE LET id == ps[sel + 1]
             stamped == id \in DOMAIN ledger /\ ledger[id].done = TRUE
         IN  [ shown |-> TRUE, id |-> id, stamped |-> stamped,
               date |-> IF stamped THEN formatDateAU(ledger[id].date) ELSE <<>> ]

\* updateCount
updateCount(ps, ledger) == <<countVisited(ledger), Len(ps)>>

\* renderList calls updateCount unless the catalog is empty
badgeAfterList(ps, ledger, badge) == IF ps = <<>> THEN badge ELSE updateCount(ps, ledger)

----------------------------------------------------------------------------
(* overview.js *)

\* updateOverviewText: the badge of the overview page, from the catalog and
\* the ledger it read from the store, as <<done, total>>
updateOverviewText(ps, visitedMap) == <<countVisited(visitedMap), Len(ps)>>

----------------------------------------------------------------------------
(* The record of the handler that ran last *)

Op(name, id) == [op |-> name, id |-> id, oldPage |-> currentStampsPage]

----------------------------------------------------------------------------
(* Startup *)

Init ==
    /\ pc = "loading"
    /\ store \in Stores
    /\ pools = <<>>
    /\ visited = readVisited(store)
    /\ selectedIndex = readSelection(store)
    /\ currentStampsPage = readStampsPage(store)
    /\ onStampsView = FALSE
    /\ listDom = NoChip
    /\ stampsDom = Unrendered
    /\ countBadge = <<0, 0>>
    /\ resetDisplay = ""
    /\ finalePending = 0
    /\ celebrations = 0
    /\ last = [op |-> "load", id |-> "", oldPage |-> 0]
    /\ lastWrites = <<>>

clampSelectionFromAbove(sel, n) == IF sel >= n THEN Max(0, n - 1) ELSE sel

\* if (selectedIndex < 0) ...; if (selectedIndex >= pools.length) ...
clampSelection(sel, n) ==
    LET s1 == IF sel < 0 THEN 0 ELSE sel
    IN  IF s1 >= n THEN Max(0, n - 1) ELSE s1

\* init(), loadPools() resolved: clamp the selection, install the handlers,
\* first render, setView(false)
init ==
    /\ pc = "loading"
    /\ \E ps \in Catalogs :
          LET sel == clampSelection(selectedIndex, Len(ps))
          IN  /\ pools' = ps
              /\ selectedIndex' = sel
              /\ listDom' = renderList(ps, sel, visited)
              /\ countBadge' = updateCount(ps, visited)
    /\ pc' = "ready"
    /\ onStampsView' = FALSE
    /\ resetDisplay' = "none"
    /\ last' = Op("init", "")
    /\ lastWrites' = <<>>
    /\ UNCHANGED <<visited, currentStampsPage, store, stampsDom, finalePending,
                   celebrations>>

\* init(), loadPools() rejected: the await throws and init ends there
initLoadFails ==
    /\ pc = "loading"
    /\ pc' = "failed"
    /\ last' = Op("initLoadFails", "")
    /\ UNCHANGED <<pools, visited, selectedIndex, currentStampsPage, onStampsView,
                   store, listDom, stampsDom, countBadge, resetDisplay,
                   finalePending, celebrations, lastWrites>>

----------------------------------------------------------------------------
(* Selection *)

nextIndexSaturating(i, n) == Min(i + 1, n - 1)

\* (selectedIndex + 1) % pools.length
nextIndex(i, n) == JsRem(i + 1, n)

\* (selectedIndex - 1 + pools.length) % pools.length
previousIndex(i, n) == JsRem(i - 1 + n, n)

moveSelection(name, sel) ==
    /\ selectedIndex' = sel
    /\ store' = writeSelection(store, sel)
    /\ listDom' = renderList(pools, sel, visited)
    /\ countBadge' = badgeAfterList(pools, visited, countBadge)
    /\ last' = Op(name, "")
    /\ lastWrites' = <<W("selection", sel)>>
    /\ UNCHANGED <<pc, pools, visited, currentStampsPage, onStampsView, stampsDom,
                   resetDisplay, finalePending, celebrations>>

ignoredButLedgerEmptied(name, id) ==
    /\ last' = Op(name, id)
    /\ lastWrites' = <<>>
    /\ visited' = EmptyLedger
    /\ UNCHANGED <<pc, pools, selectedIndex, currentStampsPage, onStampsView,
                   store, listDom, stampsDom, countBadge, resetDisplay,
                   finalePending, celebrations>>

ignoredWith(name, id) ==
    /\ last' = Op(name, id)
    /\ lastWrites' = <<>>
    /\ UNCHANGED <<pc, pools, visited, selectedIndex, currentStampsPage, onStampsView,
                   store, listDom, stampsDom, countBadge, resetDisplay,
                   finalePending, celebrations>>

ignoredButPageReset(name) ==
    /\ last' = Op(name, "")
    /\ lastWrites' = <<W("page", 0)>>
    /\ currentStampsPage' = 0
    /\ store' = writeStampsPage(store, 0)
    /\ UNCHANGED <<pc, pools, visited, selectedIndex, onStampsView, listDom,
                   stampsDom, countBadge, resetDisplay, finalePending, celebrations>>

ignored(name) == ignoredWith(name, "")

btnUpClick ==
    /\ pc = "ready"
    /\ IF pools = <<>> THEN ignored("next")
       ELSE moveSelection("next", nextIndex(selectedIndex, Len(pools)))

btnDownClick ==
    /\ pc = "ready"
    /\ IF pools = <<>> THEN ignored("previous")
       ELSE moveSelection("previous", previousIndex(selectedIndex, Len(pools)))

----------------------------------------------------------------------------
(* Claiming *)

claimIgnoredUnlessUnknown(ps, ledger, poolId) == poolId = "" \/ IsDone(ledger, poolId)

claimIgnoredUnlessDone(ps, ledger, poolId) == poolId = "" \/ ~InCatalog(ps, poolId)

\* if (!poolId) return; if (visited[poolId]?.done) return;
\* if (!pools.find(x => x.id === poolId)) return;
claimIgnored(ps, ledger, poolId) ==
    poolId = "" \/ IsDone(ledger, poolId) \/ ~InCatalog(ps, poolId)

stampAlone(ledger, poolId, today) == One(poolId, Rec(TRUE, today))

\* visited[poolId] = { done: true, date: today }
stamp(ledger, poolId, today) == Put(ledger, poolId, Rec(TRUE, today))

completionAtLeast(done, total) == total > 0 /\ done >= total

\* pools.length > 0 && done === pools.length
completionReached(done, total) == total > 0 /\ done = total

toggleStamp(poolId, today) ==
    IF claimIgnored(pools, visited, poolId) THEN ignoredWith("claim", poolId)
    ELSE LET v == stamp(visited, poolId, today)
             finale == completionReached(countVisited(v), Len(pools))
         IN  \E rs \in {renderStamps(pools, v, currentStampsPage)} :
             /\ finale => finalePending < MaxPending
             /\ visited' = v
             /\ store' = writeStampsPage(writeVisited(store, v), rs.page)
             /\ listDom' = renderList(pools, selectedIndex, v)
             /\ countBadge' = badgeAfterList(pools, v, countBadge)
             /\ currentStampsPage' = rs.page
             /\ stampsDom' = rs.dom
             /\ finalePending' = IF finale THEN finalePending + 1 ELSE finalePending
             /\ celebrations' = IF finale THEN celebrations + 1 ELSE celebrations
             /\ last' = Op("claim", poolId)
             /\ lastWrites' = <<W("visited", countVisited(v)), W("page", rs.page)>>
             /\ UNCHANGED <<pc, pools, selectedIndex, onStampsView, resetDisplay>>

\* the click handler of the row's stamp chip: toggleStamp(dataset.id, true)
stampChipClick ==
    /\ pc = "ready"
    /\ listDom.shown
    /\ \E today \in Today : toggleStamp(listDom.id, today)

\* the 900 ms timer of the finale runs out: the finale overlay is shown
finaleTimeout ==
    /\ pc = "ready"
    /\ finalePending > 0
    /\ finalePending' = finalePending - 1
    /\ last' = Op("finale", "")
    /\ lastWrites' = <<>>
    /\ UNCHANGED <<pc, pools, visited, selectedIndex, currentStampsPage, onStampsView,
                   store, listDom, stampsDom, countBadge, resetDisplay, celebrations>>

----------------------------------------------------------------------------
(* The stamps view *)

setViewResetShown(showStamps) ==
    \E rs \in {renderStamps(pools, visited, currentStampsPage)} :
        /\ onStampsView' = showStamps
        /\ resetDisplay' = ""
        /\ IF showStamps
           THEN /\ currentStampsPage' = rs.page
                /\ store' = writeStampsPage(store, rs.page)
                /\ stampsDom' = rs.dom
                /\ lastWrites' = <<W("page", rs.page)>>
           ELSE /\ lastWrites' = <<>>
                /\ UNCHANGED <<currentStampsPage, store, stampsDom>>
        /\ last' = Op("setView", "")
        /\ UNCHANGED <<pc, pools, visited, selectedIndex, listDom, countBadge,
                       finalePending, celebrations>>

\* setView(showStamps)
setView(showStamps) ==
    \E rs \in {renderStamps(pools, visited, currentStampsPage)} :
        /\ onStampsView' = showStamps
        /\ resetDisplay' = IF showStamps THEN "" ELSE "none"
        /\ IF showStamps
           THEN /\ currentStampsPage' = rs.page
                /\ store' = writeStampsPage(store, rs.page)
                /\ stampsDom' = rs.dom
                /\ lastWrites' = <<W("page", rs.page)>>
           ELSE /\ lastWrites' = <<>>
                /\ UNCHANGED <<currentStampsPage, store, stampsDom>>
        /\ last' = Op("setView", "")
        /\ UNCHANGED <<pc, pools, visited, selectedIndex, listDom, countBadge,
                       finalePending, celebrations>>

toggleBtnClick ==
    /\ pc = "ready"
    /\ setView(~onStampsView)

\* currentStampsPage = Math.max(0, currentStampsPage - 1)
retreatPage(page) == Max(0, page - 1)

\* currentStampsPage = currentStampsPage + 1
advancePage(page) == page + 1

\* a page button's handler: set the page, write it, renderStamps()
turnPage(name, page) ==
    \E rs \in {renderStamps(pools, visited, page)} :
        /\ currentStampsPage' = rs.page
        /\ store' = writeStampsPage(writeStampsPage(store, page), rs.page)
        /\ stampsDom' = rs.dom
        /\ last' = Op(name, "")
        /\ lastWrites' = <<W("page", page), W("page", rs.page)>>
        /\ UNCHANGED <<pc, pools, visited, selectedIndex, onStampsView, listDom,
                       countBadge, resetDisplay, finalePending, celebrations>>

\* a button that renderStamps disabled takes no click; before the first
\* renderStamps the markup decides, so the click may happen
prevStampsPageBtnClick ==
    /\ pc = "ready"
    /\ ~(stampsDom.rendered /\ stampsDom.prevDisabled)
    /\ turnPage("prevPage", retreatPage(currentStampsPage))

nextStampsPageBtnClick ==
    /\ pc = "ready"
    /\ ~(stampsDom.rendered /\ stampsDom.nextDisabled)
    /\ turnPage("nextPage", advancePage(currentStampsPage))

persistResetPageOnly(st) == writeStampsPage(st, 0)

\* visited = {}; writeVisited(visited); currentStampsPage = 0;
\* writeStampsPage(currentStampsPage)
persistReset(st) == writeStampsPage(writeVisited(st, EmptyLedger), 0)

\* the reset handler after confirm() returned true
resetAll ==
    \E rs \in {renderStamps(pools, EmptyLedger, 0)} :
        /\ visited' = EmptyLedger
        /\ currentStampsPage' = rs.page
        /\ store' = writeStampsPage(persistReset(store), rs.page)
        /\ listDom' = renderList(pools, selectedIndex, EmptyLedger)
        /\ stampsDom' = rs.dom
        /\ countBadge' = updateCount(pools, EmptyLedger)
        /\ celebrations' = 0
        /\ last' = Op("reset", "")
        /\ lastWrites' = <<W("visited", 0), W("page", 0), W("page", rs.page)>>
        /\ UNCHANGED <<pc, pools, selectedIndex, onStampsView, resetDisplay,
                       finalePending>>

\* a button with display: none takes no click
resetBtnClick ==
    /\ pc = "ready"
    /\ resetDisplay # "none"
    /\ \E ok \in BOOLEAN : IF ok THEN resetAll ELSE ignored("resetDeclined")

----------------------------------------------------------------------------
(* The map *)

\* window.open on the selected pool's coordinates; nothing if there is no pool
openInNativeMaps ==
    /\ pc = "ready"
    /\ ignored("openNativeMap")

\* document.body.classList.toggle('full-map')
mapToggleClick ==
    /\ pc = "ready"
    /\ ignored("mapToggle")

----------------------------------------------------------------------------
(* Calls the page's own handlers never make *)

\* ids a caller of toggleStamp can pass: any catalog id, a stale id, or none
ClaimArgs == AllIds \cup {""}

\* toggleStamp(poolId) called with an id of the caller's choosing
toggleStampCall ==
    /\ pc = "ready"
    /\ \E poolId \in ClaimArgs, today \in Today : toggleStamp(poolId, today)

toggleStampWriteFailsFirst(poolId, today) ==
    /\ ~claimIgnored(pools, visited, poolId)
    /\ ignoredWith("claimFailed", poolId)

\* writeVisited throws (quota exceeded, store unavailable): toggleStamp ends
\* at that statement, after the assignment to visited[poolId]
toggleStampWriteFails(poolId, today) ==
    /\ ~claimIgnored(pools, visited, poolId)
    /\ visited' = stamp(visited, poolId, today)
    /\ last' = Op("claimFailed", poolId)
    /\ lastWrites' = <<>>
    /\ UNCHANGED <<pc, pools, selectedIndex, currentStampsPage, onStampsView, store,
                   listDom, stampsDom, countBadge, resetDisplay, finalePending,
                   celebrations>>

stampChipClickWriteFails ==
    /\ pc = "ready"
    /\ listDom.shown
    /\ \E today \in Today : toggleStampWriteFails(listDom.id, today)

----------------------------------------------------------------------------

Next ==
    \/ init
    \/ initLoadFails
    \/ btnUpClick
    \/ btnDownClick
    \/ stampChipClick
    \/ finaleTimeout
    \/ toggleBtnClick
    \/ prevStampsPageBtnClick
    \/ nextStampsPageBtnClick
    \/ resetBtnClick
    \/ openInNativeMaps
    \/ mapToggleClick

Spec == Init /\ [][Next]_vars

\* startup from a store without a selection entry, with a page index that is
\* absent, 0 or 1, and a ledger of at most two records
InitFewStores ==
    /\ Init
    /\ ~store.selection.ok
    /\ store.page.val \in 0..1
    /\ Cardinality(DOMAIN store.visited.val) <= 2

\* the handlers, and toggleStamp called with any id
NextAnyClaim == Next \/ toggleStampCall

SpecAnyClaim == InitFewStores /\ [][NextAnyClaim]_vars

\* the handlers, and the store refusing the write of a claim
NextWriteFails == Next \/ stampChipClickWriteFails

SpecWriteFails == InitFewStores /\ [][NextWriteFails]_vars

----------------------------------------------------------------------------
(* Startup from ledgers of an earlier session whose two records carry any   *)
(* two dates of either storage-era format                                   *)

DigitOf(n) == <<"0", "1", "2", "3", "4", "5", "6", "7", "8", "9">>[n + 1]
TwoDigits(n) == <<DigitOf(n \div 10), DigitOf(n % 10)>>
FourDigits(n) == TwoDigits(n \div 100) \o TwoDigits(n % 100)

\* a calendar date <<year, month, day>> as YYYY-MM-DD and as DD/MM/YYYY
IsoOf(c) == FourDigits(c[1]) \o <<"-">> \o TwoDigits(c[2]) \o <<"-">> \o TwoDigits(c[3])
AuOf(c) == TwoDigits(c[3]) \o <<"/">> \o TwoDigits(c[2]) \o <<"/">> \o FourDigits(c[1])

CalendarDates ==
    { <<2024, 12, 31>>, <<2025, 1, 5>>, <<2025, 1, 6>>, <<2025, 1, 7>>,
      <<2025, 2, 1>>, <<2025, 10, 2>> }

StoredDates ==
    {IsoOf(c) : c \in CalendarDates} \cup {AuOf(c) : c \in CalendarDates}
        \cup {Other_04, Undefined}

DatedStores ==
    { [ visited |-> Entry(TRUE, Put(One("A", Rec(TRUE, d1)), "B", Rec(TRUE, d2))),
        selection |-> Entry(FALSE, 0),
        page |-> Entry(FALSE, 0) ] : d1 \in StoredDates, d2 \in StoredDates }

InitDated ==
    /\ pc = "loading"
    /\ store \in DatedStores
    /\ pools = <<>>
    /\ visited = readVisited(store)
    /\ selectedIndex = readSelection(store)
    /\ currentStampsPage = readStampsPage(store)
    /\ onStampsView = FALSE
    /\ listDom = NoChip
    /\ stampsDom = Unrendered
    /\ countBadge = <<0, 0>>
    /\ resetDisplay = ""
    /\ finalePending = 0
    /\ celebrations = 0
    /\ last = [op |-> "load", id |-> "", oldPage |-> 0]
    /\ lastWrites = <<>>

SpecDated == InitDated /\ [][Next]_vars

----------------------------------------------------------------------------
(* Vocabulary of the properties *)

Ready == pc = "ready"

\* the catalog locations that have a visited record
VisitedInCatalog == {pools[i] : i \in {j \in 1..Len(pools) : IsDone(visited, pools[j])}}

\* max(1, ceil(visitedCount / pageSize))
PageCount == Max(1, CeilDiv(Cardinality(VisitedInCatalog), stampsPerPage))

\* the last handler rendered the stamps view
RenderedStamps ==
    \/ last.op \in {"reset", "prevPage", "nextPage"}
    \/ last.op = "setView" /\ onStampsView
    \/ last.op = "claim" /\ lastWrites # <<>>

\* the last handler was a claim of a location already visited
RepeatedClaim == last.op = "claim" /\ lastWrites = <<>> /\ IsDone(visited, last.id)

----------------------------------------------------------------------------
(* C1: one-way stamping.  Once a location's record has done = TRUE, no    *)
(* step other than a confirmed reset removes or changes the record: it   *)
(* keeps done = TRUE and its date.                                        *)

OneWayStamping ==
    [][ \A id \in AllIds :
          (IsDone(visited, id) /\ last'.op # "reset")
            => (id \in DOMAIN visited' /\ visited'[id] = visited[id]) ]_vars

\* two stamped locations, and a handler other than a claim ran after them
OneWayStampingWitness ==
    /\ Ready
    /\ last.op \in {"next", "previous", "prevPage", "nextPage", "setView", "resetDeclined"}
    /\ Cardinality(VisitedInCatalog) >= 2

(* C2: claim idempotence.  A claim of an already visited location, with   *)
(* whatever date today is, leaves the in-memory ledger and the store as  *)
(* they were and writes nothing to the store.                             *)

ClaimIdempotent ==
    [][ (last'.op = "claim" /\ IsDone(visited, last'.id))
          => (visited' = visited /\ store' = store /\ lastWrites' = <<>>) ]_vars

\* a claim of a location stamped on another day than today's possible dates
ClaimIdempotentWitness ==
    /\ Ready
    /\ RepeatedClaim
    /\ visited[last.id].date \notin Today

(* C3: reset totality.  After a confirmed reset the ledger is empty, the  *)
(* page count is 1, the page index is 0, and the store holds the empty   *)
(* ledger and page index 0.                                               *)

ResetTotality ==
    last.op = "reset"
      => /\ visited = EmptyLedger
         /\ countVisited(visited) = 0
         /\ PageCount = 1
         /\ stampsDom.label = <<1, 1>>
         /\ currentStampsPage = 0
         /\ store.visited = Entry(TRUE, EmptyLedger)
         /\ store.page = Entry(TRUE, 0)

\* a reset pressed on the second page of stamps
ResetTotalityWitness ==
    /\ last.op = "reset"
    /\ last.oldPage = 1
    /\ stampsDom.label = <<1, 1>>

(* C4: pagination bounds.  After every render of the stamps view, and so  *)
(* after every claim, reset, page-advance and page-retreat, the page     *)
(* index is in [0, PageCount - 1], whatever index the store held at      *)
(* startup.                                                               *)

PaginationBounds ==
    (Ready /\ RenderedStamps) => currentStampsPage \in 0..(PageCount - 1)

(* C5: every value written to the store's page entry, at every single     *)
(* write, is in [0, PageCount - 1].                                       *)

PageWritesInBounds ==
    \A i \in 1..Len(lastWrites) :
        lastWrites[i].key = "page" => lastWrites[i].val \in 0..(PageCount - 1)

(* C6: selection bounds.  Once startup has completed, the selection index *)
(* is in [0, length - 1] when the catalog is non-empty and is 0 when it  *)
(* is empty, whatever index the store held.                               *)

SelectionBounds ==
    Ready => IF pools = <<>> THEN selectedIndex = 0
             ELSE selectedIndex \in 0..(Len(pools) - 1)

\* startup with a stored index below 0
SelectionBoundsWitness ==
    /\ Ready
    /\ last.op = "init"
    /\ pools # <<>>
    /\ store.selection.ok /\ store.selection.val < 0
    /\ selectedIndex = 0

(* C7: selection wraparound.  In a catalog of N >= 1 locations next takes *)
(* index i to (i + 1) mod N and previous takes it to (i - 1 + N) mod N;  *)
(* N times next, or N times previous, or next then previous, or previous *)
(* then next, lead back to i.                                             *)

RECURSIVE Times(_, _, _, _)
Times(Step(_, _), k, i, n) == IF k = 0 THEN i ELSE Times(Step, k - 1, Step(i, n), n)

SelectionWraparound ==
    /\ [][ (pools # <<>> /\ last'.op = "next")
             => selectedIndex' = (selectedIndex + 1) % Len(pools) ]_vars
    /\ [][ (pools # <<>> /\ last'.op = "previous")
             => selectedIndex' = (selectedIndex - 1 + Len(pools)) % Len(pools) ]_vars
    /\ [](Ready /\ pools # <<>>
            => LET i == selectedIndex
                   n == Len(pools)
               IN  /\ Times(nextIndex, n, i, n) = i
                   /\ Times(previousIndex, n, i, n) = i
                   /\ previousIndex(nextIndex(i, n), n) = i
                   /\ nextIndex(previousIndex(i, n), n) = i)

\* next pressed on the last location of the largest catalog: back at the first
SelectionWraparoundWitness ==
    /\ last.op = "next"
    /\ Len(pools) = MaxPools
    /\ selectedIndex = 0
    /\ store.selection = Entry(TRUE, 0)

(* C8: page navigation saturates.  As stated: after a page-advance the    *)
(* index is min(old + 1, PageCount - 1) and after a page-retreat it is   *)
(* max(old - 1, 0).                                                       *)

PageTurnAsStated ==
    /\ last.op = "nextPage" => currentStampsPage = Min(last.oldPage + 1, PageCount - 1)
    /\ last.op = "prevPage" => currentStampsPage = Max(last.oldPage - 1, 0)

(* C8, amended: after a page-advance the index is                         *)
(* min(old + 1, PageCount - 1) and after a page-retreat it is            *)
(* min(max(old - 1, 0), PageCount - 1); advancing on the last page and   *)
(* retreating on page 0 leave the index unchanged.                        *)

PageTurnSaturates ==
    /\ last.op = "nextPage" => currentStampsPage = Min(last.oldPage + 1, PageCount - 1)
    /\ last.op = "prevPage"
         => currentStampsPage = Min(Max(last.oldPage - 1, 0), PageCount - 1)
    /\ (last.op = "nextPage" /\ last.oldPage = PageCount - 1)
         => currentStampsPage = last.oldPage
    /\ (last.op = "prevPage" /\ last.oldPage = 0) => currentStampsPage = last.oldPage

\* page-advance on the last of two pages
PageTurnSaturatesWitness ==
    /\ last.op = "nextPage"
    /\ PageCount = 2
    /\ last.oldPage = 1
    /\ currentStampsPage = 1

(* C9: the stamps page shows exactly the window                           *)
(* [page * pageSize, page * pageSize + pageSize) of the visited catalog  *)
(* locations in ascending order of date key, ties in catalog order; and  *)
(* the scenario of catalog [A, B, C]: B claimed on 02/01/2025 gives      *)
(* count 1 and page 0 = [B]; then A on 01/01/2025 gives page 0 = [A, B]; *)
(* then C on 03/01/2025 gives 2 pages and page 1 = [C].                  *)

\* x is a proper prefix of y, or is smaller at the first place they differ
LexLess(x, y) ==
    \E k \in 0..Min(Len(x), Len(y)) :
        /\ \A j \in 1..k : x[j] = y[j]
        /\ \/ k = Len(x) /\ k < Len(y)
           \/ k < Len(x) /\ k < Len(y) /\ CodePoint[x[k + 1]] < CodePoint[y[k + 1]]

CatalogIndex(id) == CHOOSE i \in 1..Len(pools) : pools[i] = id

KeyOf(id) == dateKey(visited[id].date)

ShownBefore(a, b) ==
    \/ LexLess(KeyOf(a), KeyOf(b))
    \/ KeyOf(a) = KeyOf(b) /\ CatalogIndex(a) < CatalogIndex(b)

\* the visited catalog locations in chronological order
Chronological ==
    [i \in 1..Cardinality(VisitedInCatalog) |->
        CHOOSE id \in VisitedInCatalog :
            Cardinality({o \in VisitedInCatalog : ShownBefore(o, id)}) = i - 1]

\* the entries of s at the 0-based places page * pageSize .. page * pageSize + pageSize - 1
Window(s, page) ==
    LET lo == Max(page * stampsPerPage, 0)
        hi == Min(page * stampsPerPage + stampsPerPage, Len(s))
    IN  IF hi <= lo THEN <<>> ELSE SubSeq(s, lo + 1, hi)

ScenarioB == One("B", Rec(TRUE, AU_02))
ScenarioBA == Put(ScenarioB, "A", Rec(TRUE, AU_01))
ScenarioBAC == Put(ScenarioBA, "C", Rec(TRUE, AU_03))

StampsPageWindow ==
    (Ready /\ stampsDom.rendered)
      => /\ stampsDom.grid = Window(Chronological, currentStampsPage)
         /\ (pools = <<"A", "B", "C">> /\ visited = ScenarioB /\ currentStampsPage = 0)
              => (countVisited(visited) = 1 /\ stampsDom.grid = <<"B">>)
         /\ (pools = <<"A", "B", "C">> /\ visited = ScenarioBA /\ currentStampsPage = 0)
              => stampsDom.grid = <<"A", "B">>
         /\ (pools = <<"A", "B", "C">> /\ visited = ScenarioBAC)
              => /\ stampsDom.label[2] = 2
                 /\ currentStampsPage = 1 => stampsDom.grid = <<"C">>

(* C10: completion detection.  A step schedules the finale exactly when   *)
(* it is a claim that stamps a location and brings count() to the        *)
(* catalog length, with the catalog non-empty; between startup or a      *)
(* reset and the next reset the finale is scheduled at most once.         *)

CompletionOnce ==
    /\ [][ (celebrations' = celebrations + 1)
             <=> /\ last'.op = "claim"
                 /\ visited' # visited
                 /\ Len(pools) > 0
                 /\ countVisited(visited') = Len(pools) ]_vars
    /\ [][ finalePending' > finalePending <=> celebrations' = celebrations + 1 ]_vars
    /\ [](celebrations <= 1)

\* the finale was scheduled, and a later claim has not scheduled it again
CompletionOnceWitness ==
    /\ celebrations = 1
    /\ RepeatedClaim
    /\ Len(pools) = MaxPools
    /\ countVisited(visited) = Len(pools)

----------------------------------------------------------------------------
(* C11: write-through persistence.  When a mutating operation (claim,     *)
(* reset, next, previous, page-advance, page-retreat) has returned, the  *)
(* ledger, the selection index and the page index read from the store    *)
(* equal the values in memory.                                            *)

MutatingOp == last.op \in {"claim", "reset", "next", "previous", "nextPage", "prevPage"}

WriteThrough ==
    (Ready /\ MutatingOp)
      => /\ readVisited(store) = visited
         /\ readSelection(store) = selectedIndex
         /\ readStampsPage(store) = currentStampsPage

(* C12: every change of the two cursors is persisted.  Whenever startup   *)
(* has completed and no handler is running, the selection index and the  *)
(* page index read from the store equal the values in memory, the        *)
(* startup clamp of the selection included.                               *)

CursorsPersisted ==
    Ready => /\ readSelection(store) = selectedIndex
             /\ readStampsPage(store) = currentStampsPage

(* C13: a claim of an id that is not in the catalog, or of the empty id,  *)
(* changes nothing: the ledger in memory, the store, the selection index *)
(* and the page index stay as they were and no finale is scheduled.       *)

UnknownClaimNoOp ==
    [][ (last'.op = "claim" /\ (last'.id = "" \/ ~InCatalog(pools, last'.id)))
          => /\ visited' = visited
             /\ store' = store
             /\ selectedIndex' = selectedIndex
             /\ currentStampsPage' = currentStampsPage
             /\ finalePending' = finalePending
             /\ celebrations' = celebrations ]_vars

\* a claim of an id that neither the catalog nor the ledger knows
UnknownClaimNoOpWitness ==
    /\ Ready
    /\ last.op = "claim"
    /\ last.id # ""
    /\ ~InCatalog(pools, last.id)
    /\ last.id \notin DOMAIN visited
    /\ pools # <<>>
    /\ visited # EmptyLedger

(* C14: startup selection.  When the store holds no selection index, or   *)
(* one that is negative or not below the catalog length, the selection   *)
(* index after startup is 0.                                              *)

StartupSelectionZero ==
    (Ready /\ last.op = "init"
        /\ (~store.selection.ok \/ store.selection.val \notin 0..(Len(pools) - 1)))
      => selectedIndex = 0

(* C15: empty catalog.  With a catalog of length 0, next and previous     *)
(* leave the selection index at 0 and write nothing, the page count is 1 *)
(* and the page index after every render, page-advance and page-retreat  *)
(* is 0, and no claim stamps and no finale is scheduled.                  *)

EmptyCatalog ==
    (Ready /\ pools = <<>>)
      => /\ selectedIndex = 0
         /\ last.op \in {"next", "previous"} => lastWrites = <<>>
         /\ PageCount = 1
         /\ stampsDom.rendered => stampsDom.label[2] = 1
         /\ RenderedStamps => currentStampsPage = 0
         /\ last.op # "claim"
         /\ finalePending = 0 /\ celebrations = 0

(* C16: the page count of the stamps view, used for the clamp, the label  *)
(* and the slice, is max(1, ceil(count() / pageSize)) with count() the   *)
(* number of done records of the ledger, also for a ledger that holds    *)
(* ids the catalog does not have.                                         *)

LedgerPageCount == Max(1, CeilDiv(countVisited(visited), stampsPerPage))

PageCountIsLedgerCount ==
    (Ready /\ stampsDom.rendered) => stampsDom.label[2] = LedgerPageCount

(* C17: date-key normalization.  A date YYYY-MM-DD and a date DD/MM/YYYY  *)
(* both normalize to the digit string YYYYMMDD, so that for two calendar *)
(* dates in either format the lexical order of their keys is their      *)
(* chronological order, as in 2025-01-05 < 06/01/2025 < 07/01/2025; any  *)
(* other format normalizes to its digits, and a missing date to the      *)
(* empty key.                                                             *)

NumberOf(d, from, to) ==
    LET RECURSIVE Value(_)
        Value(i) == IF i < from THEN 0 ELSE 10 * Value(i - 1) + CodePoint[d[i]]
    IN  Value(to)

\* <<year, month, day>> of a date in one of the two formats
ParseDate(d) ==
    IF IsIso(d) THEN <<NumberOf(d, 1, 4), NumberOf(d, 6, 7), NumberOf(d, 9, 10)>>
    ELSE <<NumberOf(d, 7, 10), NumberOf(d, 4, 5), NumberOf(d, 1, 2)>>

IsCalendarDate(d) ==
    /\ d # Undefined
    /\ IsIso(d) \/ IsAu(d)
    /\ ParseDate(d)[2] \in 1..12
    /\ ParseDate(d)[3] \in 1..31

Earlier(p, q) ==
    \/ p[1] < q[1]
    \/ p[1] = q[1] /\ p[2] < q[2]
    \/ p[1] = q[1] /\ p[2] = q[2] /\ p[3] < q[3]

Canonical(c) == FourDigits(c[1]) \o TwoDigits(c[2]) \o TwoDigits(c[3])

RECURSIVE DigitsOnly(_)
DigitsOnly(d) ==
    IF d = <<>> THEN <<>>
    ELSE (IF Head(d) \in Digits THEN <<Head(d)>> ELSE <<>>) \o DigitsOnly(Tail(d))

DateKeyNormalizes ==
    /\ \A a \in DOMAIN visited :
          LET d == visited[a].date
          IN  /\ IsCalendarDate(d) => dateKey(d) = Canonical(ParseDate(d))
              /\ d = Undefined => dateKey(d) = <<>>
              /\ (d # Undefined /\ ~IsIso(d) /\ ~IsAu(d)) => dateKey(d) = DigitsOnly(d)
    /\ \A a, b \in DOMAIN visited :
          LET da == visited[a].date
              db == visited[b].date
          IN  (IsCalendarDate(da) /\ IsCalendarDate(db))
                => (LexLess(dateKey(da), dateKey(db))
                      <=> Earlier(ParseDate(da), ParseDate(db)))
    /\ LexLess(dateKey(IsoOf(<<2025, 1, 5>>)), dateKey(AuOf(<<2025, 1, 6>>)))
    /\ LexLess(dateKey(AuOf(<<2025, 1, 6>>)), dateKey(AuOf(<<2025, 1, 7>>)))

\* A carries a display date, B an ISO date of an earlier day that reads
\* greater as a string, and the stamps view shows B before A
DateKeyNormalizesWitness ==
    /\ Ready
    /\ stampsDom.rendered
    /\ IsDone(visited, "A") /\ IsDone(visited, "B")
    /\ IsAu(visited["A"].date) /\ IsIso(visited["B"].date)
    /\ Earlier(ParseDate(visited["B"].date), ParseDate(visited["A"].date))
    /\ stampsDom.grid = <<"B", "A">>

(* C18: after every render of the stamps view the label reads             *)
(* Page {page + 1} of {PageCount}, the retreat control is enabled iff    *)
(* page > 0 and the advance control is enabled iff page < PageCount - 1, *)
(* with page the index as renderStamps left it and PageCount that of the *)
(* current ledger.                                                        *)

LabelAndControls ==
    (Ready /\ stampsDom.rendered)
      => /\ stampsDom.label = <<currentStampsPage + 1, PageCount>>
         /\ ~stampsDom.prevDisabled <=> currentStampsPage > 0
         /\ ~stampsDom.nextDisabled <=> currentStampsPage < PageCount - 1

\* the second of two pages, reached by a page-advance
LabelAndControlsWitness ==
    /\ Ready
    /\ last.op = "nextPage"
    /\ stampsDom.label = <<2, 2>>
    /\ ~stampsDom.prevDisabled
    /\ stampsDom.nextDisabled

(* C19: the ledger, in memory and in the store, is changed by claim and   *)
(* reset only: next, previous, page-advance, page-retreat, the view      *)
(* toggle, the map toggle, rendering and opening the native maps leave   *)
(* every record as it was.                                                *)

LedgerFrame ==
    [][ last'.op \notin {"claim", "reset"}
          => (visited' = visited /\ store'.visited = store.visited) ]_vars

\* a non-empty ledger, and the map was toggled after a page turn put it on
\* the second page
LedgerFrameWitness ==
    /\ Ready
    /\ last.op \in {"mapToggle", "openNativeMap"}
    /\ currentStampsPage = 1
    /\ selectedIndex = 1
    /\ onStampsView
    /\ countVisited(visited) = 3

(* C20: write failure during a claim.  The ledger in memory receives the  *)
(* new record before the write is attempted: when the write fails, the   *)
(* claim ends in failure with the new record in memory, the store as it  *)
(* was before the claim, and every other record, the selection index,    *)
(* the page index and the catalog unchanged.                              *)

ClaimWriteFailure ==
    [][ last'.op = "claimFailed"
          => /\ ~IsDone(visited, last'.id)
             /\ IsDone(visited', last'.id)
             /\ visited'[last'.id].date \in Today
             /\ \A id \in DOMAIN visited \ {last'.id} :
                   id \in DOMAIN visited' /\ visited'[id] = visited[id]
             /\ DOMAIN visited' = DOMAIN visited \cup {last'.id}
             /\ store' = store
             /\ selectedIndex' = selectedIndex
             /\ currentStampsPage' = currentStampsPage
             /\ pools' = pools ]_vars

\* the second claim's write failed: memory holds two records, the store one
ClaimWriteFailureWitness ==
    /\ Ready
    /\ last.op = "claimFailed"
    /\ countVisited(visited) = 2
    /\ countVisited(readVisited(store)) = 1
    /\ last.id \notin DOMAIN readVisited(store)
    /\ \A id \in DOMAIN readVisited(store) : visited[id] = readVisited(store)[id]

(* C21: catalog load failure.  When loading the catalog fails at startup, *)
(* the application continues against an empty catalog: the handlers are  *)
(* installed, the selection index and the page index are 0 and the count *)
(* badge is shown.                                                        *)

LoadFailureContinues ==
    last.op = "initLoadFails"
      => /\ Ready
         /\ pools = <<>>
         /\ selectedIndex = 0
         /\ currentStampsPage = 0
         /\ countBadge = updateCount(<<>>, visited)

(* C22: display formatting is the inverse of key normalization.  For a    *)
(* calendar date d in either format, formatDateAU(d) is the same date as *)
(* DD/MM/YYYY, dateKey(formatDateAU(d)) = dateKey(d), and formatDateAU   *)
(* applied twice gives what it gives applied once.                        *)

FormatInvertsKey ==
    /\ \A a \in DOMAIN visited :
          LET d == visited[a].date
          IN  IsCalendarDate(d)
                => /\ formatDateAU(d) = AuOf(ParseDate(d))
                   /\ dateKey(formatDateAU(d)) = dateKey(d)
                   /\ formatDateAU(formatDateAU(d)) = formatDateAU(d)
    /\ (Ready /\ listDom.shown /\ listDom.stamped
           /\ IsCalendarDate(visited[listDom.id].date))
         => /\ listDom.date = AuOf(ParseDate(visited[listDom.id].date))
            /\ dateKey(listDom.date) = dateKey(visited[listDom.id].date)

\* the chip of a location whose stored date is an ISO date of October shows
\* that date day first
FormatInvertsKeyWitness ==
    /\ Ready
    /\ listDom.shown /\ listDom.stamped
    /\ visited[listDom.id].date = IsoOf(<<2025, 10, 2>>)
    /\ listDom.date = AuOf(<<2025, 10, 2>>)
    /\ last.op = "next"

(* C23: the finale and the ledger.  Whenever the finale overlay is shown, *)
(* every location of the catalog is visited at that moment; a confirmed  *)
(* reset between the completing claim and the end of the 900 ms timer is *)
(* not followed by the finale over an empty ledger.                       *)

FinaleMatchesLedger ==
    last.op = "finale" => \A i \in 1..Len(pools) : IsDone(visited, pools[i])

(* C24: reset is offered on the stamps view only.  The session starts on  *)
(* the list view with the reset control hidden, the control is visible   *)
(* exactly while the stamps view is active, the view changes by the view *)
(* toggle only, and every reset happens on the stamps view.               *)

ResetOnStampsViewOnly ==
    /\ [](last.op = "init" => (~onStampsView /\ resetDisplay = "none"))
    /\ [](Ready => (resetDisplay # "none" <=> onStampsView))
    /\ [][ onStampsView' # onStampsView => last'.op = "setView" ]_vars
    /\ [][ last'.op \in {"reset", "resetDeclined"} => onStampsView ]_vars

\* a reset, after the view was toggled to the stamps view and a page turned
ResetOnStampsViewOnlyWitness ==
    /\ Ready
    /\ last.op = "reset"
    /\ last.oldPage = 1
    /\ onStampsView
    /\ resetDisplay = ""

(* C25: a reset whose confirmation is declined changes nothing: the       *)
(* ledger, the selection index and the page index, in memory and in the  *)
(* store, are the same before and after, and nothing is written to the   *)
(* store.                                                                 *)

DeclinedResetNoOp ==
    [][ last'.op = "resetDeclined"
          => /\ visited' = visited
             /\ selectedIndex' = selectedIndex
             /\ currentStampsPage' = currentStampsPage
             /\ store' = store
             /\ lastWrites' = <<>> ]_vars

\* a reset declined on the second page of a ledger of three
DeclinedResetNoOpWitness ==
    /\ Ready
    /\ last.op = "resetDeclined"
    /\ currentStampsPage = 1
    /\ countVisited(visited) = 3
    /\ store.page = Entry(TRUE, 1)

(* C26: the pages partition the visited catalog locations.  Over the page *)
(* indices 0 .. totalPages - 1 every visited catalog location is on      *)
(* exactly one page, every page but the last holds exactly pageSize      *)
(* entries, and after any render the page shown is empty iff no catalog  *)
(* location is visited.                                                   *)

OnPage(vp, page, id) == \E k \in 1..Len(pagePools(vp, page)) : pagePools(vp, page)[k] = id

PagesPartition ==
    (Ready /\ stampsDom.rendered)
      => LET vp == visitedPools(pools, visited)
             total == totalPages(Len(vp))
         IN  /\ \A id \in VisitedInCatalog :
                   Cardinality({p \in 0..(total - 1) : OnPage(vp, p, id)}) = 1
             /\ \A p \in 0..(total - 2) : Len(pagePools(vp, p)) = stampsPerPage
             /\ stampsDom.grid = <<>> <=> VisitedInCatalog = {}

(* C27: the badge never overstates.  In every state after startup, on the *)
(* main page and on the overview page, the visited count shown is at     *)
(* most the catalog length, the visited ids of the ledger are ids of the *)
(* catalog, and count() equals the catalog length iff every catalog      *)
(* location is visited, also for a ledger written against another        *)
(* catalog.                                                               *)

BadgeNeverOverstates ==
    Ready
      => /\ countBadge[1] <= countBadge[2]
         /\ updateOverviewText(pools, readVisited(store))[1] <= Len(pools)
         /\ \A id \in DOMAIN visited : visited[id].done => InCatalog(pools, id)
         /\ countVisited(visited) = Len(pools)
              <=> \A i \in 1..Len(pools) : IsDone(visited, pools[i])

(* C28: the selection index, in memory and in the store, is changed by    *)
(* next, previous and the startup clamp only: claim, reset (confirmed or *)
(* declined), page-advance, page-retreat and the view toggle leave it as *)
(* it was; and every claim made from the list is a claim of the location *)
(* at the selection index.                                                *)

SelectionFrame ==
    /\ [][ last'.op \notin {"next", "previous", "init"}
             => (selectedIndex' = selectedIndex
                   /\ store'.selection = store.selection) ]_vars
    /\ [][ last'.op = "claim"
             => (pools # <<>> /\ last'.id = pools[selectedIndex + 1]) ]_vars

\* after two presses of next, the claim stamps the third location
SelectionFrameWitness ==
    /\ Ready
    /\ last.op = "claim"
    /\ lastWrites # <<>>
    /\ selectedIndex = 2
    /\ last.id = "C"
    /\ store.selection = Entry(TRUE, 2)
    /\ ~IsDone(visited, "A")

====
